---- MODULE Spec2Model ----
(***************************************************************************)
(* PID Patrol: the monitor state kept in dashboards/utils.py (running,     *)
(* interval, process_names) and the request handlers of                    *)
(* dashboards/web_dashboard.py that read and write it.                     *)
(*                                                                         *)
(* Python strings are sequences of one-character strings.  Floats are      *)
(* fixed-point records [k, v]: k = "num" with v the value in tenths        *)
(* (5.0 is 50), or k = "nan".  JSON values are records [t, n, s, l] with   *)
(* the tag t and the number, string or list the tag selects.               *)
(***************************************************************************)
EXTENDS Integers, Sequences, FiniteSets, TLC

VARIABLES running, interval, process_names, req, resp, pre, lastToggle,
          os, ws, rs, smp, nrm, hs

vars == <<running, interval, process_names, req, resp, pre, lastToggle,
          os, ws, rs, smp, nrm, hs>>

\* the process table, the /ws connections, the /ui/results request and the
\* single sample
sampling == <<os, ws, rs, smp>>

\* the single normalize_names call and the handlers running side by side
aside == <<nrm, hs>>

\* Longest list a request payload carries.
MaxList == 2

(***************************************************************************)
(* Python strings                                                          *)
(***************************************************************************)
Whitespace == {" ", "\n", "\t"}

UpperChars == <<"A", "B", "C", "N">>

LowerChars == <<"a", "b", "c", "n">>

\* str.lower() on one character
LowerChar(c) ==
    IF \E i \in 1..Len(UpperChars) : UpperChars[i] = c
    THEN LowerChars[CHOOSE i \in 1..Len(UpperChars) : UpperChars[i] = c]
    ELSE c

\* str.lower()
RECURSIVE Lower(_)
Lower(s) == IF s = <<>> THEN <<>> ELSE <<LowerChar(Head(s))>> \o Lower(Tail(s))

RECURSIVE LStrip(_)
LStrip(s) ==
    IF s = <<>> THEN <<>>
    ELSE IF Head(s) \in Whitespace THEN LStrip(Tail(s)) ELSE s

RECURSIVE RStrip(_)
RStrip(s) ==
    IF s = <<>> THEN <<>>
    ELSE IF s[Len(s)] \in Whitespace THEN RStrip(SubSeq(s, 1, Len(s) - 1)) ELSE s

\* str.strip()
Strip(s) == RStrip(LStrip(s))

(***************************************************************************)
(* Python floats                                                           *)
(***************************************************************************)
Num(v) == [k |-> "num", v |-> v]

NaN == [k |-> "nan", v |-> 0]

\* a < b on floats: every comparison with nan is false
Lt(a, b) == a.k = "num" /\ b.k = "num" /\ a.v < b.v

\* max(a, b): b only when b > a, so max(1.0, nan) is 1.0
PyMax(a, b) == IF Lt(a, b) THEN b ELSE a

DigitChars == <<"0", "1", "2", "3", "4", "5", "6", "7", "8", "9">>

IsDigit(c) == \E i \in 1..Len(DigitChars) : DigitChars[i] = c

DigitVal(c) == (CHOOSE i \in 1..Len(DigitChars) : DigitChars[i] = c) - 1

IsDigits(s) == Len(s) > 0 /\ \A i \in 1..Len(s) : IsDigit(s[i])

RECURSIVE DigitsVal(_)
DigitsVal(s) ==
    IF s = <<>> THEN 0
    ELSE 10 * DigitsVal(SubSeq(s, 1, Len(s) - 1)) + DigitVal(s[Len(s)])

FloatOk(f) == [ok |-> TRUE, f |-> f]

FloatErr == [ok |-> FALSE, f |-> NaN]

\* float() of an unsigned literal: digits, or digits "." digit (tenths)
ParseUnsigned(t) ==
    IF IsDigits(t) THEN FloatOk(Num(10 * DigitsVal(t)))
    ELSE IF Len(t) >= 3 /\ t[Len(t) - 1] = "." /\ IsDigit(t[Len(t)])
            /\ IsDigits(SubSeq(t, 1, Len(t) - 2))
         THEN FloatOk(Num(10 * DigitsVal(SubSeq(t, 1, Len(t) - 2)) + DigitVal(t[Len(t)])))
         ELSE FloatErr

\* float() of a str: surrounding whitespace ignored, "nan" in any case,
\* an optional sign, otherwise ValueError
ParseFloat(s) ==
    LET t == Strip(s) IN
    IF Lower(t) = <<"n", "a", "n">> THEN FloatOk(NaN)
    ELSE IF t # <<>> /\ Head(t) = "-"
         THEN LET u == ParseUnsigned(Tail(t)) IN
              IF u.ok THEN FloatOk(Num(0 - u.f.v)) ELSE FloatErr
         ELSE IF t # <<>> /\ Head(t) = "+" THEN ParseUnsigned(Tail(t))
              ELSE ParseUnsigned(t)

(***************************************************************************)
(* JSON values of a request body                                           *)
(***************************************************************************)
JAbsent == [t |-> "absent", n |-> 0, s |-> <<>>, l |-> <<>>]

JNull == [t |-> "null", n |-> 0, s |-> <<>>, l |-> <<>>]

JNum(n) == [t |-> "num", n |-> n, s |-> <<>>, l |-> <<>>]

JStr(s) == [t |-> "str", n |-> 0, s |-> s, l |-> <<>>]

JList(l) == [t |-> "list", n |-> 0, s |-> <<>>, l |-> l]

\* a Python float as a value: a number, or nan
JFloat(f) == IF f.k = "nan" THEN [t |-> "nan", n |-> 0, s |-> <<>>, l |-> <<>>] ELSE JNum(f.v)

\* list items: a string, or a dict {"name": s}
StrItem(s) == [t |-> "str", s |-> s]

DictItem(s) == [t |-> "dict", s |-> s]

\* dict.get(key): None when the key is absent (None and JSON null coincide)
IsNone(j) == j.t \in {"absent", "null"}

\* Python truthiness of a JSON value
Truthy(j) ==
    CASE j.t = "num" -> j.n # 0
      [] j.t = "nan" -> TRUE
      [] j.t = "str" -> j.s # <<>>
      [] j.t = "list" -> j.l # <<>>
      [] OTHER -> FALSE

\* a or b
PyOr(a, b) == IF Truthy(a) THEN a ELSE b

\* float(x) without string support, used to show that string coercion matters
PyFloatNoStr(j) ==
    CASE j.t = "num" -> FloatOk(Num(j.n))
      [] j.t = "nan" -> FloatOk(NaN)
      [] OTHER -> FloatErr

\* float(x): numbers convert, strings are parsed, None and lists raise TypeError
PyFloat(j) ==
    CASE j.t = "num" -> FloatOk(Num(j.n))
      [] j.t = "nan" -> FloatOk(NaN)
      [] j.t = "str" -> ParseFloat(j.s)
      [] OTHER -> FloatErr

\* str(x) of a list item: a string is itself, a dict is its repr
PyStr(item) ==
    IF item.t = "str" THEN item.s
    ELSE <<"{", "'", "n", "a", "m", "e", "'", ":", " ", "'">> \o item.s \o <<"'", "}">>

RECURSIVE StrItems(_)
StrItems(names) ==
    IF names = <<>> THEN <<>> ELSE <<StrItem(Head(names))>> \o StrItems(Tail(names))

\* a Python list of strings as a list value
AsJList(names) == JList(StrItems(names))

\* [str(x) for x in raw]
RECURSIVE StrAll(_)
StrAll(items) ==
    IF items = <<>> THEN <<>> ELSE <<StrItem(PyStr(Head(items)))>> \o StrAll(Tail(items))

(***************************************************************************)
(* Name Normalizer                                                         *)
(***************************************************************************)
\* the name of one item: item.get("name", "") of a dict, the item otherwise
ItemName(item) == item.s

\* first loop of normalize_names: trimmed, non-empty names in order
RECURSIVE CollectNames(_)
CollectNames(items) ==
    IF items = <<>> THEN <<>>
    ELSE LET n == Strip(ItemName(Head(items))) IN
         (IF n # <<>> THEN <<n>> ELSE <<>>) \o CollectNames(Tail(items))

\* second loop of normalize_names: first occurrence per lower-cased key
RECURSIVE Dedupe(_, _)
Dedupe(names, seen) ==
    IF names = <<>> THEN <<>>
    ELSE LET k == Lower(Head(names)) IN
         IF k \in seen THEN Dedupe(Tail(names), seen)
         ELSE <<Head(names)>> \o Dedupe(Tail(names), seen \cup {k})

\* the second loop keyed by the name itself instead of its lower case
RECURSIVE DedupeExact(_, _)
DedupeExact(names, seen) ==
    IF names = <<>> THEN <<>>
    ELSE LET k == Head(names) IN
         IF k \in seen THEN DedupeExact(Tail(names), seen)
         ELSE <<Head(names)>> \o DedupeExact(Tail(names), seen \cup {k})

normalize_names_exact(raw) ==
    IF raw.t # "list" THEN <<>> ELSE DedupeExact(CollectNames(raw.l), {})

\* normalize_names without its second loop
normalize_names_all(raw) ==
    IF raw.t # "list" THEN <<>> ELSE CollectNames(raw.l)

normalize_names(raw) ==
    IF raw.t # "list" THEN <<>> ELSE Dedupe(CollectNames(raw.l), {})

Delims == {",", "\n", ";"}

\* re.split(r"[,\n;]+", raw): the parts between runs of delimiters
RECURSIVE SplitParts(_, _, _)
SplitParts(s, cur, inDelim) ==
    IF s = <<>> THEN <<cur>>
    ELSE IF Head(s) \in Delims
         THEN IF inDelim THEN SplitParts(Tail(s), cur, TRUE)
              ELSE <<cur>> \o SplitParts(Tail(s), <<>>, TRUE)
         ELSE SplitParts(Tail(s), Append(cur, Head(s)), FALSE)

RECURSIVE StripNonEmpty(_)
StripNonEmpty(parts) ==
    IF parts = <<>> THEN <<>>
    ELSE (IF Strip(Head(parts)) # <<>> THEN <<Strip(Head(parts))>> ELSE <<>>)
         \o StripNonEmpty(Tail(parts))

_split_names(raw) == StripNonEmpty(SplitParts(raw, <<>>, FALSE))

(***************************************************************************)
(* Monitor state and request payloads                                      *)
(***************************************************************************)
DefaultInterval == Num(50)

MinInterval == Num(10)

Globals == [running |-> running, interval |-> interval, process_names |-> process_names]

InitGlobals == [running |-> FALSE, interval |-> DefaultInterval, process_names |-> <<>>]

\* a request body: unparsable, JSON that is not an object, or an object
\* with the keys the handlers read
Obj(names, processes, name, iv, upd) ==
    [kind |-> "obj", names |-> names, processes |-> processes, name |-> name,
     interval |-> iv, update_interval |-> upd]

EmptyObj == Obj(JAbsent, JAbsent, JAbsent, JAbsent, JAbsent)

Unparsable == [EmptyObj EXCEPT !.kind = "unparsable"]

NonObject == [EmptyObj EXCEPT !.kind = "nonobj"]

\* a response: HTTP status (0 for a direct call), the body's ok and error,
\* and the state fields the body reports
Reply(code, ok, error, g) ==
    [code |-> code, ok |-> ok, error |-> error, processes |-> g.process_names,
     interval |-> g.interval, is_running |-> g.running]

NoResp == Reply(0, FALSE, "none", InitGlobals)

\* an exception that no handler catches: the framework answers 500
Crash(g) == Reply(500, FALSE, "internal server error", g)

Result(g, r) == [g |-> g, resp |-> r]

\* JSONResponse(result, status_code=200 if result.get("ok") else 409)
JSONResponse(res) == Result(res.g, [res.resp EXCEPT !.code = IF res.resp.ok THEN 200 ELSE 409])

(***************************************************************************)
(* dashboards/utils.py                                                     *)
(***************************************************************************)
\* the interval override of api_start without the clamp
start_interval_unclamped(v, cur) ==
    IF IsNone(v) THEN cur
    ELSE LET f == PyFloat(v) IN IF f.ok THEN f.f ELSE cur

\* the interval override of api_start
start_interval(v, cur) ==
    IF IsNone(v) THEN cur
    ELSE LET f == PyFloat(v) IN IF f.ok THEN PyMax(MinInterval, f.f) ELSE cur

\* api_start replacing the list by whatever the processes key normalizes to
api_start_replace(payload, g) ==
    LET names == normalize_names(payload.processes)
        pn == IF payload.processes.t # "absent" THEN names ELSE g.process_names
        v == IF payload.interval.t # "absent" THEN payload.interval
             ELSE payload.update_interval
        g2 == [running |-> TRUE, interval |-> start_interval(v, g.interval),
               process_names |-> pn]
    IN Result(g2, Reply(0, TRUE, "", g2))

api_start(payload, g) ==
    LET names == normalize_names(payload.processes)
        pn == IF payload.processes.t # "absent" /\ names # <<>> THEN names
              ELSE g.process_names
        v == IF payload.interval.t # "absent" THEN payload.interval
             ELSE payload.update_interval
        g2 == [running |-> TRUE, interval |-> start_interval(v, g.interval),
               process_names |-> pn]
    IN Result(g2, Reply(0, TRUE, "", g2))

\* api_stop that leaves the flag alone
api_stop_keep(g) == Result(g, Reply(0, TRUE, "", g))

\* api_stop that also clears the watch list
api_stop_clear(g) ==
    LET g2 == [g EXCEPT !.running = FALSE, !.process_names = <<>>] IN
    Result(g2, Reply(0, TRUE, "", g2))

api_stop(g) ==
    LET g2 == [g EXCEPT !.running = FALSE] IN Result(g2, Reply(0, TRUE, "", g2))

update_interval(new_interval, g) ==
    LET f == PyFloat(new_interval) IN
    IF f.ok
    THEN LET g2 == [g EXCEPT !.interval = PyMax(MinInterval, f.f)] IN
         Result(g2, Reply(0, TRUE, "", g2))
    ELSE Result(g, Reply(0, FALSE, "invalid interval", g))

\* configure_processes that refuses a list that normalizes to nothing
configure_processes_nonempty(payload, g) ==
    IF payload.processes.t = "absent" \/ normalize_names(payload.processes) = <<>>
    THEN Result(g, Reply(0, FALSE, "missing processes", g))
    ELSE LET g2 == [g EXCEPT !.process_names = normalize_names(payload.processes)] IN
         Result(g2, Reply(0, TRUE, "", g2))

\* configure_processes that clears the list before it reports the missing key
configure_processes_clear(payload, g) ==
    IF payload.processes.t = "absent"
    THEN Result([g EXCEPT !.process_names = <<>>], Reply(0, FALSE, "missing processes", g))
    ELSE LET g2 == [g EXCEPT !.process_names = normalize_names(payload.processes)] IN
         Result(g2, Reply(0, TRUE, "", g2))

configure_processes(payload, g) ==
    IF payload.processes.t = "absent"
    THEN Result(g, Reply(0, FALSE, "missing processes", g))
    ELSE LET g2 == [g EXCEPT !.process_names = normalize_names(payload.processes)] IN
         Result(g2, Reply(0, TRUE, "", g2))

(***************************************************************************)
(* dashboards/web_dashboard.py: the handlers as functions of the request   *)
(* body and the monitor state                                              *)
(***************************************************************************)
Error409(msg, g) == Result(g, Reply(409, FALSE, msg, g))

WithProcesses(names) == [EmptyObj EXCEPT !.processes = AsJList(names)]

\* ui_add with the new names put in front of the existing list
ui_add_prepend(p, g) ==
    IF p.kind = "unparsable" THEN Error409("invalid payload (expected JSON)", g)
    ELSE IF p.kind = "nonobj" THEN Result(g, Crash(g))
    ELSE LET raw == PyOr(p.names, p.processes)
             new_names == IF raw.t = "list" THEN normalize_names(JList(StrAll(raw.l)))
                          ELSE normalize_names(AsJList(_split_names(raw.s)))
             merged == new_names \o g.process_names
             normalized == normalize_names(AsJList(merged))
         IN IF IsNone(raw) THEN Error409("missing 'names' or 'processes'", g)
            ELSE IF new_names = <<>> THEN Error409("empty names", g)
            ELSE JSONResponse(configure_processes(WithProcesses(normalized), g))

ui_add(p, g) ==
    IF p.kind = "unparsable" THEN Error409("invalid payload (expected JSON)", g)
    ELSE IF p.kind = "nonobj" THEN Result(g, Crash(g))
    ELSE LET raw == PyOr(p.names, p.processes)
             new_names == IF raw.t = "list" THEN normalize_names(JList(StrAll(raw.l)))
                          ELSE normalize_names(AsJList(_split_names(raw.s)))
             merged == g.process_names \o new_names
             normalized == normalize_names(AsJList(merged))
         IN IF IsNone(raw) THEN Error409("missing 'names' or 'processes'", g)
            ELSE IF new_names = <<>> THEN Error409("empty names", g)
            ELSE JSONResponse(configure_processes(WithProcesses(normalized), g))

RECURSIVE Remaining(_, _)
Remaining(names, lower_tgt) ==
    IF names = <<>> THEN <<>>
    ELSE (IF Lower(Head(names)) # lower_tgt THEN <<Head(names)>> ELSE <<>>)
         \o Remaining(Tail(names), lower_tgt)

\* ui_remove comparing the entries with the name as typed
ui_remove_exact(p, g) ==
    IF p.kind = "unparsable" THEN Error409("invalid payload (expected JSON)", g)
    ELSE IF p.kind = "nonobj" THEN Result(g, Crash(g))
    ELSE LET raw == p.name
             tgt == Strip(IF Truthy(raw) THEN raw.s ELSE <<>>)
             remaining == SelectSeq(g.process_names, LAMBDA n : n # tgt)
         IN IF tgt = <<>> THEN Error409("missing name", g)
            ELSE JSONResponse(configure_processes(WithProcesses(remaining), g))

ui_remove(p, g) ==
    IF p.kind = "unparsable" THEN Error409("invalid payload (expected JSON)", g)
    ELSE IF p.kind = "nonobj" THEN Result(g, Crash(g))
    ELSE LET raw == p.name
             tgt == Strip(IF Truthy(raw) THEN raw.s ELSE <<>>)
             remaining == Remaining(g.process_names, Lower(tgt))
         IN IF tgt = <<>> THEN Error409("missing name", g)
            ELSE JSONResponse(configure_processes(WithProcesses(remaining), g))

\* ui_interval without the f < 1.0 check
ui_interval_nocheck(p, g) ==
    IF p.kind # "obj" THEN Error409("invalid interval", g)
    ELSE LET f == PyFloat(PyOr(p.interval, p.update_interval)) IN
         IF ~f.ok THEN Error409("invalid interval", g)
         ELSE JSONResponse(update_interval(JFloat(f.f), g))

ui_interval(p, g) ==
    IF p.kind # "obj" THEN Error409("invalid interval", g)
    ELSE LET f == PyFloat(PyOr(p.interval, p.update_interval)) IN
         IF ~f.ok THEN Error409("invalid interval", g)
         ELSE IF Lt(f.f, Num(10)) THEN Error409("interval must be >= 1.0", g)
         ELSE JSONResponse(update_interval(JFloat(f.f), g))

ui_start(p, g) ==
    IF p.kind = "unparsable" THEN JSONResponse(api_start(EmptyObj, g))
    ELSE IF p.kind = "nonobj" THEN Result(g, Crash(g))
    ELSE JSONResponse(api_start(p, g))

ui_stop(g) == JSONResponse(api_stop(g))

ui_status(g) == Result(g, Reply(200, TRUE, "", g))

(***************************************************************************)
(* dashboards/utils.py: row_for_name, the sample of one watched name.      *)
(*                                                                         *)
(* The process table o is what psutil shows: o.cores is the logical core   *)
(* count (0 when psutil reports none) and o.procs[pid] the process with    *)
(* that pid.  CPU percentages, and megabytes in a row, are in thousandths; *)
(* resident memory is in KiB.  A pid of 0 in a row stands for None.  The   *)
(* last_checked text of a row is left out.                                 *)
(*                                                                         *)
(* fate[pid] names the psutil call of this sample at which the process     *)
(* raised an exception, if any: "enum" for psutil.Process(pid), "prime"    *)
(* for the first cpu_percent, "cpu", "mem" and "status" for the calls of   *)
(* the second pass.                                                        *)
(***************************************************************************)
Proc(name, status, cpu, rss) ==
    [alive |-> TRUE, name |-> name, status |-> status, cpu |-> cpu, rss |-> rss]

NoProc == [alive |-> FALSE, name |-> <<>>, status |-> "", cpu |-> 0, rss |-> 0]

Ok == [at |-> "none", exc |-> "none"]

Fails(at, exc) == [at |-> at, exc |-> exc]

\* an except clause that matches the named classes only
CaughtByName(exc, classes) == exc \in classes

\* except (classes): an exception is caught by its class or by a base class;
\* psutil.ZombieProcess derives from psutil.NoSuchProcess
Caught(exc, classes) ==
    \/ exc \in classes
    \/ exc = "ZombieProcess" /\ "NoSuchProcess" \in classes

EnumExcept == {"NoSuchProcess", "AccessDenied"}

PrimeExcept == {"NoSuchProcess", "AccessDenied"}

ReadExcept == {"NoSuchProcess", "AccessDenied", "ZombieProcess"}

\* round(a / b, 3) for a in thousandths
Round3Div(a, b) == (2 * a + b) \div (2 * b)

Min(a, b) == IF a < b THEN a ELSE b

RECURSIVE UpTo(_)
UpTo(n) == IF n = 0 THEN <<>> ELSE Append(UpTo(n - 1), n)

RECURSIVE SumOver(_, _)
SumOver(pids, val) ==
    IF pids = <<>> THEN 0 ELSE val[Head(pids)] + SumOver(Tail(pids), val)

CountOf(sts, s) == Cardinality({i \in 1..Len(sts) : sts[i] = s})

\* Counter.most_common(1)[0][0]: the first counted among the most frequent
most_common(sts) ==
    sts[CHOOSE i \in 1..Len(sts) :
          /\ \A j \in 1..Len(sts) : CountOf(sts, sts[j]) <= CountOf(sts, sts[i])
          /\ \A j \in 1..(i - 1) : CountOf(sts, sts[j]) < CountOf(sts, sts[i])]

\* the row's status taken from the first process counted
row_status_first(sts) == Head(sts)

\* "running" if status_cnt.get("running") else status_cnt.most_common(1)[0][0]
row_status(sts) ==
    IF CountOf(sts, "running") > 0 THEN "running" ELSE most_common(sts)

\* st = getattr(p, "status", ...)() or "running", for each process counted
RECURSIVE StatusesOf(_, _)
StatusesOf(pids, o) ==
    IF pids = <<>> THEN <<>>
    ELSE <<IF o.procs[Head(pids)].status = "" THEN "running"
           ELSE o.procs[Head(pids)].status>> \o StatusesOf(Tail(pids), o)

Row(name, pid, pids, status, cpu_percent, cpu_percent_sum, memory_mb) ==
    [name |-> name, pid |-> pid, pids |-> pids, status |-> status,
     cpu_percent |-> cpu_percent, cpu_percent_sum |-> cpu_percent_sum,
     memory_mb |-> memory_mb]

NotFoundRow(name) == Row(name, 0, <<>>, "not_found", 0, 0, 0)

Returned(row) == [raised |-> FALSE, row |-> row]

Raised(name) == [raised |-> TRUE, row |-> NotFoundRow(name)]

\* row_for_name listing every process that was primed
row_for_name_primed(name, o, fate) ==
    LET target == Lower(Strip(name))
        matched == SelectSeq(UpTo(Len(o.procs)),
                      LAMBDA p : o.procs[p].alive /\ Lower(o.procs[p].name) = target)
        procs == SelectSeq(matched, LAMBDA p : fate[p].at # "enum")
        alive == SelectSeq(procs, LAMBDA p : fate[p].at # "prime")
        pid_list == alive
        escapes == \E i \in 1..Len(matched) :
                      LET f == fate[matched[i]] IN
                      \/ f.at = "enum" /\ ~Caught(f.exc, EnumExcept)
                      \/ f.at = "prime" /\ ~Caught(f.exc, PrimeExcept)
                      \/ f.at \in {"cpu", "mem", "status"} /\ ~Caught(f.exc, ReadExcept)
        \* total_cpu and total_mem grow before the later calls of the same
        \* pass can raise
        total_cpu == SumOver(SelectSeq(alive, LAMBDA p : fate[p].at # "cpu"),
                             [p \in 1..Len(o.procs) |-> o.procs[p].cpu])
        total_mem == SumOver(SelectSeq(alive, LAMBDA p : fate[p].at \notin {"cpu", "mem"}),
                             [p \in 1..Len(o.procs) |-> o.procs[p].rss])
        sts == StatusesOf(pid_list, o)
        logical == IF o.cores < 1 THEN 1 ELSE o.cores
        cpu_norm == Min(100000, Round3Div(total_cpu, logical))
    IN IF target = <<>> THEN Returned(NotFoundRow(name))
       ELSE IF escapes THEN Raised(name)
       ELSE IF procs = <<>> THEN Returned(NotFoundRow(name))
       ELSE IF pid_list = <<>> THEN Returned(NotFoundRow(name))
       ELSE Returned(Row(name, pid_list[1], pid_list, row_status(sts), cpu_norm,
                         total_cpu, Round3Div(total_mem * 1000, 1024)))

row_for_name(name, o, fate) ==
    LET target == Lower(Strip(name))
        matched == SelectSeq(UpTo(Len(o.procs)),
                      LAMBDA p : o.procs[p].alive /\ Lower(o.procs[p].name) = target)
        procs == SelectSeq(matched, LAMBDA p : fate[p].at # "enum")
        alive == SelectSeq(procs, LAMBDA p : fate[p].at # "prime")
        pid_list == SelectSeq(alive, LAMBDA p : fate[p].at = "none")
        escapes == \E i \in 1..Len(matched) :
                      LET f == fate[matched[i]] IN
                      \/ f.at = "enum" /\ ~Caught(f.exc, EnumExcept)
                      \/ f.at = "prime" /\ ~Caught(f.exc, PrimeExcept)
                      \/ f.at \in {"cpu", "mem", "status"} /\ ~Caught(f.exc, ReadExcept)
        \* total_cpu and total_mem grow before the later calls of the same
        \* pass can raise
        total_cpu == SumOver(SelectSeq(alive, LAMBDA p : fate[p].at # "cpu"),
                             [p \in 1..Len(o.procs) |-> o.procs[p].cpu])
        total_mem == SumOver(SelectSeq(alive, LAMBDA p : fate[p].at \notin {"cpu", "mem"}),
                             [p \in 1..Len(o.procs) |-> o.procs[p].rss])
        sts == StatusesOf(pid_list, o)
        logical == IF o.cores < 1 THEN 1 ELSE o.cores
        cpu_norm == Min(100000, Round3Div(total_cpu, logical))
    IN IF target = <<>> THEN Returned(NotFoundRow(name))
       ELSE IF escapes THEN Raised(name)
       ELSE IF procs = <<>> THEN Returned(NotFoundRow(name))
       ELSE IF pid_list = <<>> THEN Returned(NotFoundRow(name))
       ELSE Returned(Row(name, pid_list[1], pid_list, row_status(sts), cpu_norm,
                         total_cpu, Round3Div(total_mem * 1000, 1024)))

\* the processes a sample could match, and the fates it can meet among F
Matches(name, o) ==
    {p \in 1..Len(o.procs) :
        o.procs[p].alive /\ Lower(o.procs[p].name) = Lower(Strip(name))}

RECURSIVE FatesUpTo(_, _, _, _)
FatesUpTo(n, name, o, F) ==
    IF n = 0 THEN {<<>>}
    ELSE {Append(f, x) : f \in FatesUpTo(n - 1, name, o, F),
                         x \in IF n \in Matches(name, o) THEN F \cup {Ok} ELSE {Ok}}

FatesOf(name, o, F) == FatesUpTo(Len(o.procs), name, o, F)

\* the table after the sample: a process that raised NoSuchProcess is gone
RECURSIVE GoneFrom(_, _, _)
GoneFrom(procs, fate, p) ==
    IF p > Len(procs) THEN <<>>
    ELSE <<IF fate[p].exc = "NoSuchProcess" THEN NoProc ELSE procs[p]>>
         \o GoneFrom(procs, fate, p + 1)

AfterSample(o, fate) == [o EXCEPT !.procs = GoneFrom(o.procs, fate, 1)]

(***************************************************************************)
(* dashboards/web_dashboard.py: /ui/results and the /ws push loop.  Both   *)
(* sample one watched name per step: await asyncio.to_thread(row_for_name) *)
(* suspends the handler, so other handlers run between two rows.           *)
(***************************************************************************)
\* the list whose entries are sampled
watched_but_first(g) == IF g.process_names = <<>> THEN <<>> ELSE Tail(g.process_names)

watched(g) == g.process_names

\* if not utils.running or not utils.process_names: 204
results_empty_unless_listed(g) == g.process_names = <<>>

results_empty(g) == ~g.running \/ g.process_names = <<>>

\* one entry of "results"
result_row(r) ==
    [name |-> r.name, pids |-> r.pids,
     status |-> IF r.status = "not_found" THEN "not found" ELSE r.status,
     cpu_percent |-> r.cpu_percent, memory_mb |-> r.memory_mb]

RECURSIVE result_rows(_)
result_rows(rows) ==
    IF rows = <<>> THEN <<>> ELSE <<result_row(Head(rows))>> \o result_rows(Tail(rows))

\* the response of /ui/results: status code and, for 200, the body
ResultsReply(code, g, results) ==
    [code |-> code, running |-> g.running, interval |-> g.interval,
     count |-> Len(results), results |-> results]

NoContent == ResultsReply(204, InitGlobals, <<>>)

ServerError == ResultsReply(500, InitGlobals, <<>>)

\* the /ui/results handler: where it stands, the names left to sample, the
\* rows so far and the response; toggle and list0 record the last toggle and
\* the watch list when the request began
Results(pc, todo, rows, toggle, list0, reply) ==
    [pc |-> pc, todo |-> todo, rows |-> rows, toggle |-> toggle, list0 |-> list0,
     reply |-> reply]

NoResults == Results("idle", <<>>, <<>>, "none", <<>>, NoContent)

\* if utils.running and utils.process_names: sample, else rows = []
poll_samples_listed(g) == g.process_names # <<>>

poll_samples(g) == g.running /\ g.process_names # <<>>

\* the message of one tick; stamps holds the tick each row was sampled in
snapshot(g, rows, stamps) ==
    [running |-> g.running, interval |-> g.interval, processes |-> g.process_names,
     rows |-> rows, stamps |-> stamps]

NoMsg == snapshot(InitGlobals, <<>>, <<>>)

\* the rows a tick starts from
tick_rows_kept(rows) == rows

tick_rows(rows) == <<>>

\* one /ws connection: where its loop stands, the names left to sample, the
\* rows of the tick with the tick each was sampled in, the tick's parity,
\* the last toggle and the watch list when the tick began, whether a
\* process raised during the tick, and the message sent last
Loop(pc, todo, rows, stamps, tick, toggle, list0, errs, msg) ==
    [pc |-> pc, todo |-> todo, rows |-> rows, stamps |-> stamps, tick |-> tick,
     toggle |-> toggle, list0 |-> list0, errs |-> errs, msg |-> msg]

ClosedLoop == Loop("closed", <<>>, <<>>, <<>>, 0, "none", <<>>, FALSE, NoMsg)

\* a single call of row_for_name: the name, what each process did when psutil
\* asked it, and the result once it returned
Sample(pc, name, fate, res) == [pc |-> pc, name |-> name, fate |-> fate, res |-> res]

NoSample == Sample("idle", <<>>, <<>>, Returned(NotFoundRow(<<>>)))

Subscribers == {1, 2}

NoOs == [cores |-> 1, procs |-> <<>>]

\* a single call of normalize_names: the argument, the list it returned and
\* the list it returned when called again on that list
Norm(pc, raw, out, again) == [pc |-> pc, raw |-> raw, out |-> out, again |-> again]

NoNorm == Norm("idle", JNull, <<>>, <<>>)

\* a request handler running beside another one: the request, the monitor
\* state when the request arrived, and the status it answered
Handler(pc, op, payload, entry, code) ==
    [pc |-> pc, op |-> op, payload |-> payload, entry |-> entry, code |-> code]

IdleHandler == Handler("idle", "none", EmptyObj, InitGlobals, 0)

Handlers == {1, 2}

NoHandlers == [h \in Handlers |-> IdleHandler]

(***************************************************************************)
(* Requests drawn by the client                                            *)
(***************************************************************************)
Items ==
    { StrItem(<<" ">>), StrItem(<<"a">>), StrItem(<<"A">>),
      StrItem(<<" ", "a", " ">>), StrItem(<<"b">>), DictItem(<<"B">>) }

\* the lists of at most n items
RECURSIVE ListsOf(_)
ListsOf(n) ==
    IF n = 0 THEN {<<>>}
    ELSE LET S == ListsOf(n - 1) IN
         S \cup {Append(l, i) : l \in {m \in S : Len(m) = n - 1}, i \in Items}

ListVals == {JList(l) : l \in ListsOf(MaxList)}

ShortListVals == {JList(l) : l \in ListsOf(1)}

\* human-typed lines for the "names" key
NameTexts ==
    { <<>>, <<" ">>, <<"b">>, <<",", ";">>,
      <<" ", "A", ";", " ", "b", ",", "\n", "a", " ">> }

AddPayloads ==
    {Unparsable, NonObject, EmptyObj}
    \cup {[EmptyObj EXCEPT !.processes = v] : v \in ListVals \cup {JNull}}
    \cup {[EmptyObj EXCEPT !.names = v] :
            v \in ShortListVals \cup {JStr(t) : t \in NameTexts} \cup {JNull}}
    \cup {[EmptyObj EXCEPT !.names = JStr(<<>>), !.processes = v] : v \in ShortListVals}

RemoveNames ==
    { <<>>, <<" ">>, <<"a">>, <<" ", "A", " ">>, <<"b">>, <<"B">>, <<"c">> }

RemovePayloads ==
    {Unparsable, NonObject, EmptyObj, [EmptyObj EXCEPT !.name = JNull]}
    \cup {[EmptyObj EXCEPT !.name = JStr(t)] : t \in RemoveNames}

IntervalVals ==
    { JNull, JList(<<>>), JNum(0 - 10), JNum(0), JNum(5), JNum(10), JNum(30),
      JStr(<<"3">>), JStr(<<" ", "3">>), JStr(<<"0", ".", "5">>), JStr(<<"x">>),
      JStr(<<>>), JStr(<<"n", "a", "n">>) }

IntervalPayloads ==
    {Unparsable, NonObject, EmptyObj}
    \cup {[EmptyObj EXCEPT !.interval = v] : v \in IntervalVals}
    \cup {[EmptyObj EXCEPT !.update_interval = v] : v \in {JNum(5), JNum(30), JStr(<<"x">>)}}
    \cup {[EmptyObj EXCEPT !.interval = v, !.update_interval = JNum(30)] :
            v \in {JNull, JNum(0), JNum(10)}}

ConfigurePayloads ==
    {EmptyObj}
    \cup {[EmptyObj EXCEPT !.processes = v] : v \in ListVals \cup {JNull, JStr(<<"a">>)}}

StartPayloads ==
    {Unparsable, NonObject, EmptyObj}
    \cup {[EmptyObj EXCEPT !.processes = v] : v \in ListVals \cup {JNull, JStr(<<"a">>)}}
    \cup {[EmptyObj EXCEPT !.interval = v] : v \in IntervalVals}
    \cup {[EmptyObj EXCEPT !.update_interval = v] : v \in {JNum(5), JNum(30), JStr(<<"x">>)}}
    \cup {[EmptyObj EXCEPT !.interval = v, !.update_interval = JNum(30)] :
            v \in {JNull, JNum(0), JNum(10)}}
    \cup {[EmptyObj EXCEPT !.processes = v, !.interval = w] :
            v \in ShortListVals, w \in {JNum(5), JNum(30), JStr(<<"x">>)}}

Request(op, payload) == [op |-> op, payload |-> payload]

Requests ==
    {Request("add", p) : p \in AddPayloads}
    \cup {Request("remove", p) : p \in RemovePayloads}
    \cup {Request("interval", p) : p \in IntervalPayloads}
    \cup {Request("configure", p) : p \in ConfigurePayloads}
    \cup {Request("start", p) : p \in StartPayloads}
    \cup {Request("stop", EmptyObj), Request("status", EmptyObj)}

NoReq == Request("none", EmptyObj)

(***************************************************************************)
(* The state machine: one exchange at a time.  The client sends a request, *)
(* the handler runs to completion, the client takes the response.          *)
(***************************************************************************)
Init ==
    /\ running = FALSE
    /\ interval = DefaultInterval
    /\ process_names = <<>>
    /\ req = NoReq
    /\ resp = NoResp
    /\ pre = InitGlobals
    /\ lastToggle = "none"
    /\ os = NoOs
    /\ ws = [c \in Subscribers |-> ClosedLoop]
    /\ rs = NoResults
    /\ smp = NoSample
    /\ nrm = NoNorm
    /\ hs = NoHandlers

Send ==
    /\ req = NoReq
    /\ \E r \in Requests : req' = r
    /\ UNCHANGED <<running, interval, process_names, resp, pre, lastToggle>>
    /\ UNCHANGED <<sampling, aside>>

Pending(op) == req.op = op /\ resp = NoResp

\* the handler's result becomes the state and the response; pre keeps the
\* state the handler started from
Apply(res) ==
    /\ running' = res.g.running
    /\ interval' = res.g.interval
    /\ process_names' = res.g.process_names
    /\ resp' = res.resp
    /\ pre' = Globals
    /\ UNCHANGED req
    /\ UNCHANGED <<sampling, aside>>

HandleAdd == Pending("add") /\ Apply(ui_add(req.payload, Globals)) /\ UNCHANGED lastToggle

HandleRemove ==
    Pending("remove") /\ Apply(ui_remove(req.payload, Globals)) /\ UNCHANGED lastToggle

HandleInterval ==
    Pending("interval") /\ Apply(ui_interval(req.payload, Globals)) /\ UNCHANGED lastToggle

HandleConfigure ==
    /\ Pending("configure")
    /\ Apply(configure_processes(req.payload, Globals))
    /\ UNCHANGED lastToggle

\* lastToggle records the last start or stop call that returned
HandleStart ==
    /\ Pending("start")
    /\ Apply(ui_start(req.payload, Globals))
    /\ lastToggle' = IF ui_start(req.payload, Globals).resp.code = 200 THEN "start"
                     ELSE lastToggle

HandleStop == Pending("stop") /\ Apply(ui_stop(Globals)) /\ lastToggle' = "stop"

HandleStatus == Pending("status") /\ Apply(ui_status(Globals)) /\ UNCHANGED lastToggle

Receive ==
    /\ resp # NoResp
    /\ req' = NoReq
    /\ resp' = NoResp
    /\ pre' = InitGlobals
    /\ UNCHANGED <<running, interval, process_names, lastToggle>>
    /\ UNCHANGED <<sampling, aside>>

Next ==
    \/ Send
    \/ HandleAdd
    \/ HandleRemove
    \/ HandleInterval
    \/ HandleConfigure
    \/ HandleStart
    \/ HandleStop
    \/ HandleStatus
    \/ Receive

Spec == Init /\ [][Next]_vars

Done(op) == req.op = op /\ resp # NoResp

(***************************************************************************)
(* The monitor at work: handlers that change the state, one /ui/results    *)
(* request and /ws push loops sampling a process table that changes under  *)
(* them.  A handler that changes the state runs from its request to its    *)
(* response without suspending, so it is one step here.                    *)
(***************************************************************************)
\* Highest pid of the process table the monitor samples.
MaxPid == 2

MonProcs ==
    { Proc(<<"a">>, "running", 10000, 128), Proc(<<"B">>, "running", 10000, 128) }

MonFates == { Fails("prime", "ZombieProcess") }

MonRequests ==
    { Request("configure",
              [EmptyObj EXCEPT !.processes = JList(<<StrItem(<<"a">>), StrItem(<<"b">>)>>)]),
      Request("add", [EmptyObj EXCEPT !.names = JStr(<<"a">>)]),
      Request("remove", [EmptyObj EXCEPT !.name = JStr(<<"a">>)]),
      Request("start", EmptyObj),
      Request("stop", EmptyObj) }

PollRequests == {r \in MonRequests : r.op # "add"}

RECURSIVE EmptyTable(_)
EmptyTable(n) == IF n = 0 THEN <<>> ELSE Append(EmptyTable(n - 1), NoProc)

InitMon ==
    /\ running = FALSE
    /\ interval = DefaultInterval
    /\ process_names = <<>>
    /\ req = NoReq
    /\ resp = NoResp
    /\ pre = InitGlobals
    /\ lastToggle = "none"
    /\ os = [cores |-> 4, procs |-> EmptyTable(MaxPid)]
    /\ ws = [c \in Subscribers |-> ClosedLoop]
    /\ rs = NoResults
    /\ smp = NoSample
    /\ nrm = NoNorm
    /\ hs = NoHandlers

state == <<running, interval, process_names, lastToggle>>

exchange == <<req, resp, pre>>

\* the handler a request is routed to
served(r, g) ==
    CASE r.op = "add" -> ui_add(r.payload, g)
      [] r.op = "remove" -> ui_remove(r.payload, g)
      [] r.op = "configure" -> configure_processes(r.payload, g)
      [] r.op = "start" -> ui_start(r.payload, g)
      [] r.op = "stop" -> ui_stop(g)

\* one request of R for the operation op is served
Call(op, R) ==
    /\ \E r \in R :
          /\ r.op = op
          /\ LET res == served(r, Globals) IN
             /\ running' = res.g.running
             /\ interval' = res.g.interval
             /\ process_names' = res.g.process_names
             /\ lastToggle' = IF op = "start" /\ res.resp.code = 200 THEN "start"
                              ELSE IF op = "stop" THEN "stop"
                              ELSE lastToggle
    /\ UNCHANGED <<exchange, sampling, aside>>

\* a process starts under a free pid, or exits and frees its pid
OsStart ==
    /\ \E p \in 1..Len(os.procs), k \in MonProcs :
          /\ ~os.procs[p].alive
          /\ os' = [os EXCEPT !.procs[p] = k]
    /\ UNCHANGED <<state, exchange, aside, ws, rs, smp>>

OsExit ==
    /\ \E p \in 1..Len(os.procs) :
          /\ os.procs[p].alive
          /\ os' = [os EXCEPT !.procs[p] = NoProc]
    /\ UNCHANGED <<state, exchange, aside, ws, rs, smp>>

RsBegin ==
    /\ rs.pc = "idle"
    /\ rs' = IF results_empty(Globals)
             THEN Results("done", <<>>, <<>>, lastToggle, process_names, NoContent)
             ELSE Results("sampling", watched(Globals), <<>>, lastToggle, process_names,
                          NoContent)
    /\ UNCHANGED <<state, exchange, aside, os, ws, smp>>

RsSample ==
    /\ rs.pc = "sampling"
    /\ rs.todo # <<>>
    /\ \E fate \in FatesOf(Head(rs.todo), os, MonFates) :
          LET res == row_for_name(Head(rs.todo), os, fate) IN
          /\ rs' = IF res.raised
                   THEN [rs EXCEPT !.pc = "done", !.todo = <<>>, !.rows = <<>>,
                                   !.reply = ServerError]
                   ELSE [rs EXCEPT !.todo = Tail(rs.todo),
                                   !.rows = Append(rs.rows, res.row)]
          /\ os' = AfterSample(os, fate)
    /\ UNCHANGED <<state, exchange, aside, ws, smp>>

RsReturn ==
    /\ rs.pc = "sampling"
    /\ rs.todo = <<>>
    /\ rs' = [rs EXCEPT !.pc = "done", !.rows = <<>>,
                        !.reply = ResultsReply(200, Globals, result_rows(rs.rows))]
    /\ UNCHANGED <<state, exchange, aside, os, ws, smp>>

RsReceive ==
    /\ rs.pc = "done"
    /\ rs' = NoResults
    /\ UNCHANGED <<state, exchange, aside, os, ws, smp>>

WsAccept(c) ==
    /\ ws[c].pc = "closed"
    /\ ws' = [ws EXCEPT ![c] = [ClosedLoop EXCEPT !.pc = "top"]]
    /\ UNCHANGED <<state, exchange, aside, os, rs, smp>>

\* the top of the loop: start sampling, or send a message without rows; the
\* send fails when the client has gone
WsTick(c) ==
    /\ ws[c].pc = "top"
    /\ LET l == ws[c] IN
       IF poll_samples(Globals)
       THEN ws' = [ws EXCEPT ![c] =
                     Loop("sampling", watched(Globals), l.rows, l.stamps, l.tick,
                          lastToggle, process_names, FALSE, NoMsg)]
       ELSE \/ ws' = [ws EXCEPT ![c] =
                        Loop("sleep", <<>>, <<>>, <<>>, l.tick, lastToggle, process_names,
                             FALSE, snapshot(Globals, <<>>, <<>>))]
            \/ ws' = [ws EXCEPT ![c] = ClosedLoop]
    /\ UNCHANGED <<state, exchange, aside, os, rs, smp>>

\* an exception out of row_for_name ends the loop (except Exception)
WsSample(c) ==
    /\ ws[c].pc = "sampling"
    /\ ws[c].todo # <<>>
    /\ LET l == ws[c] IN
       \E fate \in FatesOf(Head(l.todo), os, MonFates) :
          LET res == row_for_name(Head(l.todo), os, fate) IN
          /\ ws' = [ws EXCEPT ![c] =
                      IF res.raised THEN [ClosedLoop EXCEPT !.pc = "failed"]
                      ELSE [l EXCEPT !.todo = Tail(l.todo),
                                     !.rows = Append(l.rows, res.row),
                                     !.stamps = Append(l.stamps, l.tick),
                                     !.errs = l.errs \/ (\E p \in DOMAIN fate : fate[p] # Ok)]]
          /\ os' = AfterSample(os, fate)
    /\ UNCHANGED <<state, exchange, aside, rs, smp>>

WsSend(c) ==
    /\ ws[c].pc = "sampling"
    /\ ws[c].todo = <<>>
    /\ LET l == ws[c] IN
       \/ ws' = [ws EXCEPT ![c] =
                   [l EXCEPT !.pc = "sleep", !.rows = <<>>, !.stamps = <<>>,
                             !.msg = snapshot(Globals, l.rows, l.stamps)]]
       \/ ws' = [ws EXCEPT ![c] = ClosedLoop]
    /\ UNCHANGED <<state, exchange, aside, os, rs, smp>>

\* await asyncio.sleep(...), then the next iteration with rows assigned anew
WsSleep(c) ==
    /\ ws[c].pc = "sleep"
    /\ LET l == ws[c] IN
       ws' = [ws EXCEPT ![c] =
                Loop("top", <<>>, tick_rows(l.msg.rows), tick_rows(l.msg.stamps),
                     1 - l.tick, "none", <<>>, FALSE, NoMsg)]
    /\ UNCHANGED <<state, exchange, aside, os, rs, smp>>

\* /ui/results against the handlers and the process table
NextMon ==
    \/ Call("configure", MonRequests)
    \/ Call("add", MonRequests)
    \/ Call("remove", MonRequests)
    \/ Call("start", MonRequests)
    \/ Call("stop", MonRequests)
    \/ OsStart
    \/ OsExit
    \/ RsBegin
    \/ RsSample
    \/ RsReturn
    \/ RsReceive

SpecMon == InitMon /\ [][NextMon]_vars

\* one /ws push loop against the handlers and the process table
NextPoll ==
    \/ Call("configure", PollRequests)
    \/ Call("remove", PollRequests)
    \/ Call("start", PollRequests)
    \/ Call("stop", PollRequests)
    \/ OsStart
    \/ OsExit
    \/ WsAccept(1)
    \/ WsTick(1)
    \/ WsSample(1)
    \/ WsSend(1)
    \/ WsSleep(1)

SpecPoll == InitMon /\ [][NextPoll]_vars

\* /ui/results and one /ws push loop side by side, over one watched process
InitWatch ==
    /\ running = FALSE
    /\ interval = DefaultInterval
    /\ process_names = <<>>
    /\ req = NoReq
    /\ resp = NoResp
    /\ pre = InitGlobals
    /\ lastToggle = "none"
    /\ os = [cores |-> 4,
             procs |-> <<Proc(<<"A">>, "running", 10000, 128)>>]
    /\ ws = [c \in Subscribers |-> ClosedLoop]
    /\ rs = NoResults
    /\ smp = NoSample
    /\ nrm = NoNorm
    /\ hs = NoHandlers

NextWatch ==
    \/ Call("configure", MonRequests)
    \/ Call("add", MonRequests)
    \/ Call("remove", MonRequests)
    \/ Call("start", MonRequests)
    \/ Call("stop", MonRequests)
    \/ RsBegin
    \/ RsSample
    \/ RsReturn
    \/ RsReceive
    \/ WsAccept(1)
    \/ WsTick(1)
    \/ WsSample(1)
    \/ WsSend(1)
    \/ WsSleep(1)

SpecWatch == InitWatch /\ [][NextWatch]_vars

\* two /ws push loops, each its own ws_snapshots call, over one pid
SubsRequests ==
    { Request("configure", [EmptyObj EXCEPT !.processes = JList(<<StrItem(<<"a">>)>>)]),
      Request("start", EmptyObj),
      Request("stop", EmptyObj) }

InitSubs ==
    /\ running = FALSE
    /\ interval = DefaultInterval
    /\ process_names = <<>>
    /\ req = NoReq
    /\ resp = NoResp
    /\ pre = InitGlobals
    /\ lastToggle = "none"
    /\ os = [cores |-> 4, procs |-> EmptyTable(1)]
    /\ ws = [c \in Subscribers |-> ClosedLoop]
    /\ rs = NoResults
    /\ smp = NoSample
    /\ nrm = NoNorm
    /\ hs = NoHandlers

NextSubs ==
    \/ Call("configure", SubsRequests)
    \/ Call("start", SubsRequests)
    \/ Call("stop", SubsRequests)
    \/ OsStart
    \/ OsExit
    \/ \E c \in Subscribers : WsAccept(c)
    \/ \E c \in Subscribers : WsTick(c)
    \/ \E c \in Subscribers : WsSample(c)
    \/ \E c \in Subscribers : WsSend(c)
    \/ \E c \in Subscribers : WsSleep(c)

SpecSubs == InitSubs /\ [][NextSubs]_vars

(***************************************************************************)
(* row_for_name on its own: one call at a time over every process table of *)
(* a few processes, each of which may raise at any of the psutil calls.    *)
(***************************************************************************)
\* Highest pid of the process table a single sample reads.
MaxProcs == 3

SamplerProcs ==
    { Proc(<<"a">>, "running", 10000, 128),
      Proc(<<"A">>, "sleeping", 20000, 256),
      Proc(<<"a">>, "stopped", 90000, 512),
      Proc(<<"b">>, "running", 10000, 128) }

\* psutil.cpu_count(logical=True); 0 stands for None
SamplerCores == {0, 1, 4}

SamplerNames == { <<"a">>, <<" ", "A">>, <<" ">>, <<"c">> }

SamplerFates ==
    { Fails("enum", "NoSuchProcess"), Fails("prime", "AccessDenied"),
      Fails("cpu", "NoSuchProcess"), Fails("mem", "AccessDenied"),
      Fails("status", "ZombieProcess") }

RECURSIVE TablesOf(_)
TablesOf(n) ==
    IF n = 0 THEN {<<>>}
    ELSE {Append(t, k) : t \in TablesOf(n - 1), k \in SamplerProcs \cup {NoProc}}

InitSampler ==
    /\ running = FALSE
    /\ interval = DefaultInterval
    /\ process_names = <<>>
    /\ req = NoReq
    /\ resp = NoResp
    /\ pre = InitGlobals
    /\ lastToggle = "none"
    /\ os \in {[cores |-> c, procs |-> t] : c \in SamplerCores, t \in TablesOf(MaxProcs)}
    /\ ws = [c \in Subscribers |-> ClosedLoop]
    /\ rs = NoResults
    /\ smp = NoSample
    /\ nrm = NoNorm
    /\ hs = NoHandlers

SmpCall ==
    /\ smp.pc = "idle"
    /\ \E name \in SamplerNames :
          \E fate \in FatesOf(name, os, SamplerFates) :
             /\ smp' = Sample("done", name, fate, row_for_name(name, os, fate))
             /\ os' = AfterSample(os, fate)
    /\ UNCHANGED <<state, exchange, aside, ws, rs>>

SmpReturn ==
    /\ smp.pc = "done"
    /\ smp' = NoSample
    /\ UNCHANGED <<state, exchange, aside, os, ws, rs>>

NextSampler ==
    \/ SmpCall
    \/ SmpReturn

SpecSampler == InitSampler /\ [][NextSampler]_vars

(***************************************************************************)
(* Properties                                                              *)
(***************************************************************************)
Padded(n) == n = <<>> \/ Head(n) \in Whitespace \/ n[Len(n)] \in Whitespace

\* the stripped names a list of items supplies
RECURSIVE SuppliedOf(_)
SuppliedOf(items) ==
    IF items = <<>> THEN <<>>
    ELSE <<Strip(PyStr(Head(items)))>> \o SuppliedOf(Tail(items))

InList(n, names) == \E i \in 1..Len(names) : Lower(names[i]) = Lower(n)

\* C1: in every reachable state the watch list holds no two entries that are
\* equal under case-insensitive comparison and no entry that is empty or has
\* surrounding whitespace.
C1_WatchListNormalized ==
    /\ \A i, j \in 1..Len(process_names) :
          i # j => Lower(process_names[i]) # Lower(process_names[j])
    /\ \A i \in 1..Len(process_names) : ~Padded(process_names[i])

\* a replacing or merging call was given a padded name and a second casing of
\* a name, and the watch list it wrote is shorter than the list supplied
C1_Witness ==
    /\ \E op \in {"add", "configure", "start"} : Done(op)
    /\ resp.ok
    /\ LET l == req.payload.processes.l IN
       /\ \E i, j \in 1..Len(l) :
             /\ i # j
             /\ Lower(Strip(l[i].s)) = Lower(Strip(l[j].s))
             /\ l[i].s # l[j].s
             /\ Strip(l[i].s) # <<>>
       /\ \E i \in 1..Len(l) : Padded(l[i].s) /\ Strip(l[i].s) # <<>>
       /\ process_names # <<>>
       /\ Len(process_names) < Len(pre.process_names) + Len(l)

\* C2: in every reachable state the stored polling interval is a number that
\* is at least 1.0, whichever operation wrote it last.
C2_IntervalAtLeastOne == interval.k = "num" /\ interval.v >= 10

\* start was given an interval below 1.0 and stored the clamped value
C2_Witness ==
    /\ Done("start")
    /\ req.payload.interval = JNum(5)
    /\ pre.interval # MinInterval
    /\ interval = MinInterval

\* C3: the running flag is false initially and afterwards true exactly when
\* the last start or stop call that returned was a start; no other operation
\* changes it.
C3_RunningIsLastToggle == running = (lastToggle = "start")

\* start answered 200 while already running and left the flag set
C3_Witness ==
    /\ Done("start")
    /\ resp.code = 200
    /\ pre.running
    /\ running

\* the values a set_interval request carries
SuppliedIntervals ==
    {req.payload.interval, req.payload.update_interval} \ {JAbsent}

\* not coercible to a number, or a number below 1.0
BadInterval(j) ==
    \/ j.t \in {"null", "list"}
    \/ j.t = "num" /\ j.n < 10
    \/ j.t = "str" /\ ~ParseFloat(j.s).ok
    \/ j.t = "str" /\ ParseFloat(j.s).ok /\ Lt(ParseFloat(j.s).f, Num(10))

\* C4: set_interval with a value below 1.0 or with a value that is not
\* coercible to a number answers an error and leaves the stored interval as
\* it was.
C4_BadIntervalRejected ==
    (/\ Done("interval")
     /\ req.payload.kind = "obj"
     /\ SuppliedIntervals # {}
     /\ \A j \in SuppliedIntervals : BadInterval(j))
    => (resp.code = 409 /\ ~resp.ok /\ interval = pre.interval)

\* set_interval(0.5) was refused while the stored interval was 3.0
C4_Witness ==
    /\ Done("interval")
    /\ req.payload.interval = JNum(5)
    /\ req.payload.update_interval = JAbsent
    /\ resp.code = 409
    /\ pre.interval = Num(30)
    /\ interval = Num(30)

\* the number a string of digits denotes, in tenths, read off the literal;
\* -1 for a string that denotes none
StringValue(s) ==
    CASE s = <<"3">> -> 30
      [] s = <<" ", "3">> -> 30
      [] s = <<"0", ".", "5">> -> 5
      [] OTHER -> 0 - 1

C6_StringIntervalRejected ==
    (/\ Done("interval")
     /\ req.payload.kind = "obj"
     /\ req.payload.interval.t = "str")
    => (resp.code = 409 /\ interval = pre.interval)

\* the names an add request supplies: the items of a list, or the parts of a
\* delimited line
AddSupplied ==
    LET raw == IF Truthy(req.payload.names) THEN req.payload.names
               ELSE req.payload.processes
    IN IF raw.t = "list" THEN SelectSeq(SuppliedOf(raw.l), LAMBDA n : n # <<>>)
       ELSE IF raw.t = "str" THEN _split_names(raw.s)
       ELSE <<>>

\* C7: add(names) where every supplied name is already in the watch list
\* under case-insensitive comparison is answered 409 and leaves the watch
\* list unchanged.
C7_AddExistingRejected ==
    (/\ Done("add")
     /\ req.payload.kind = "obj"
     /\ AddSupplied # <<>>
     /\ \A i \in 1..Len(AddSupplied) : InList(AddSupplied[i], pre.process_names))
    => (resp.code = 409 /\ process_names = pre.process_names)

\* C8: remove(name) with a non-blank name that matches no watch-list entry
\* is answered 404 and leaves the watch list unchanged.
C8_RemoveAbsentNotFound ==
    (/\ Done("remove")
     /\ req.payload.kind = "obj"
     /\ req.payload.name.t = "str"
     /\ Strip(req.payload.name.s) # <<>>
     /\ ~InList(Strip(req.payload.name.s), pre.process_names))
    => (resp.code = 404 /\ process_names = pre.process_names)

\* the processes value holds no name: an empty list, blank entries only, or
\* a value that is not a list
NormalizesToEmpty(j) ==
    \/ j.t # "list"
    \/ \A i \in 1..Len(j.l) : Strip(j.l[i].s) = <<>>

\* C9 as stated: configure(names) where names normalizes to an empty list
\* fails and leaves the watch list unchanged.
C9_EmptyConfigureRejected ==
    (/\ Done("configure")
     /\ req.payload.processes # JAbsent
     /\ NormalizesToEmpty(req.payload.processes))
    => (~resp.ok /\ process_names = pre.process_names)

\* C9 amended: configure fails, leaving the watch list unchanged, only when
\* the processes field is missing; a processes value that normalizes to an
\* empty list succeeds and replaces the watch list by the empty list.
C9_EmptyConfigureClears ==
    Done("configure") =>
       /\ (req.payload.processes = JAbsent)
             => (~resp.ok /\ process_names = pre.process_names)
       /\ (req.payload.processes # JAbsent)
             => resp.ok
       /\ (req.payload.processes # JAbsent /\ NormalizesToEmpty(req.payload.processes))
             => process_names = <<>>

\* configure with blank entries only emptied a non-empty watch list
C9_Witness ==
    /\ Done("configure")
    /\ req.payload.processes = JList(<<StrItem(<<" ">>)>>)
    /\ resp.ok
    /\ pre.process_names # <<>>
    /\ process_names = <<>>

\* C10: every operation that reports an error leaves running, interval and
\* watch list exactly as they were before the call.
C10_ErrorLeavesState ==
    (resp # NoResp /\ ~resp.ok) => Globals = pre

\* configure without a processes field reported an error while the monitor
\* was running with a non-empty watch list and a non-default interval
C10_Witness ==
    /\ Done("configure")
    /\ req.payload.processes = JAbsent
    /\ ~resp.ok
    /\ pre.running
    /\ pre.process_names # <<>>
    /\ pre.interval # DefaultInterval
    /\ Globals = pre

\* the list with each supplied name appended unless an entry already equals
\* it when case is ignored
RECURSIVE AppendNew(_, _)
AppendNew(list, supplied) ==
    IF supplied = <<>> THEN list
    ELSE AppendNew(IF InList(Head(supplied), list) THEN list
                   ELSE Append(list, Head(supplied)),
                   Tail(supplied))

\* C11: a successful add leaves the watch list equal to the previous list in
\* its previous order followed by the supplied names that were not yet
\* present when case is ignored, in the order supplied and in the casing seen
\* first; the response returns that same list.
C11_AddAppendsNew ==
    (Done("add") /\ resp.code = 200)
    => (/\ process_names = AppendNew(pre.process_names, AddSupplied)
        /\ resp.processes = process_names)

\* add was given a second casing of an existing entry and one new name, and
\* appended the new name only
C11_Witness ==
    /\ Done("add")
    /\ resp.code = 200
    /\ pre.process_names # <<>>
    /\ \E i \in 1..Len(AddSupplied) :
          /\ InList(AddSupplied[i], pre.process_names)
          /\ \A k \in 1..Len(pre.process_names) : pre.process_names[k] # AddSupplied[i]
    /\ \E i \in 1..Len(AddSupplied) :
          /\ ~InList(AddSupplied[i], pre.process_names)
          /\ process_names = Append(pre.process_names, AddSupplied[i])

\* the name a remove request carries, stripped
RemoveName ==
    IF req.payload.name.t = "str" THEN Strip(req.payload.name.s) ELSE <<>>

\* C12: a successful remove leaves the watch list equal to the previous list
\* with every entry that equals the name when case is ignored deleted and the
\* other entries in their previous order; it succeeds on a listed name whether
\* the monitor is stopped or running, and it leaves the running flag alone.
C12_RemoveDeletesMatches ==
    (Done("remove") /\ req.payload.kind = "obj")
    => (/\ (RemoveName # <<>> /\ InList(RemoveName, pre.process_names))
              => resp.code = 200
        /\ (resp.code = 200)
              => (/\ process_names =
                        SelectSeq(pre.process_names,
                                  LAMBDA e : Lower(e) # Lower(RemoveName))
                  /\ running = pre.running))

\* remove was given another casing of the first of two entries while the
\* monitor was running, and left the second entry and the running flag
C12_Witness ==
    /\ Done("remove")
    /\ resp.code = 200
    /\ pre.running
    /\ running
    /\ Len(pre.process_names) = 2
    /\ Lower(pre.process_names[1]) = Lower(RemoveName)
    /\ pre.process_names[1] # RemoveName
    /\ process_names = <<pre.process_names[2]>>

\* some live process bears a watched name
WatchedProcessLives(names) ==
    \E i \in 1..Len(names) : Matches(names[i], os) # {}

\* C13: a /ui/results request that begins when the last toggle that returned
\* is a stop is answered 204 at once, without rows and without sampling,
\* however often stop was called.
C13_StoppedResultsEmpty ==
    (rs.pc # "idle" /\ rs.toggle = "stop")
    => (rs.pc = "done" /\ rs.reply = NoContent)

\* a request that began after a stop was answered 204 although the watch
\* list named a live process
C13_Witness ==
    /\ rs.pc = "done"
    /\ rs.toggle = "stop"
    /\ rs.reply.code = 204
    /\ lastToggle = "stop"
    /\ rs.list0 # <<>>
    /\ WatchedProcessLives(rs.list0)

RECURSIVE RowNames(_)
RowNames(rows) ==
    IF rows = <<>> THEN <<>> ELSE <<Head(rows).name>> \o RowNames(Tail(rows))

\* C14: a /ui/results request or a push tick that begins while the last toggle
\* is a start and the watch list is not empty samples the entries of the watch
\* list as it stands at that moment, one row each and in its order, whatever
\* configure, add or remove do to the list afterwards.
C14_RowsFollowWatchList ==
    /\ (rs.pc # "idle" /\ rs.toggle = "start" /\ rs.list0 # <<>>)
       => (/\ rs.pc = "sampling" => RowNames(rs.rows) \o rs.todo = rs.list0
           /\ rs.pc = "done" => (/\ rs.reply.code = 200
                                 /\ RowNames(rs.reply.results) = rs.list0))
    /\ \A c \in Subscribers :
          (ws[c].pc \in {"sampling", "sleep"} /\ ws[c].toggle = "start" /\ ws[c].list0 # <<>>)
          => (/\ ws[c].pc = "sampling" => RowNames(ws[c].rows) \o ws[c].todo = ws[c].list0
              /\ ws[c].pc = "sleep" => RowNames(ws[c].msg.rows) = ws[c].list0)

\* a response holds the one row of the list left by a remove, and a tick that
\* began after the removed name was added again pushed both rows, the added
\* name's row with a pid
C14_Witness ==
    /\ rs.pc = "done"
    /\ rs.reply.code = 200
    /\ RowNames(rs.reply.results) = << <<"b">> >>
    /\ ws[1].pc = "sleep"
    /\ process_names = << <<"b">>, <<"a">> >>
    /\ RowNames(ws[1].msg.rows) = process_names
    /\ ws[1].msg.rows[2].pids # <<>>

RECURSIVE AllPids(_)
AllPids(rows) == IF rows = <<>> THEN <<>> ELSE Head(rows).pids \o AllPids(Tail(rows))

NoPidTwice(rows) ==
    \A i, j \in 1..Len(AllPids(rows)) : i # j => AllPids(rows)[i] # AllPids(rows)[j]

\* C15 as stated: in every /ui/results response no pid appears in the pids of
\* two rows or twice in one row, also when processes exit and start under a
\* freed pid between two rows.
C15_PidsUnique ==
    (rs.pc = "done" /\ rs.reply.code = 200) => NoPidTwice(rs.reply.results)

\* C16 as stated: subscribers whose loops have both sent the message of their
\* tick were sent identical rows, and no message holds rows sampled in two
\* ticks.
C16_SameSnapshot ==
    /\ \A c, d \in Subscribers :
          (ws[c].pc = "sleep" /\ ws[d].pc = "sleep") => ws[c].msg.rows = ws[d].msg.rows
    /\ \A c \in Subscribers :
          ws[c].pc = "sleep"
          => \A i \in 1..Len(ws[c].msg.stamps) : ws[c].msg.stamps[i] = ws[c].tick

\* C16 amended: every subscriber is served by a loop of its own, and the rows
\* of a message are the rows that loop sampled in the tick that sent it, one
\* per name sampled and none from another tick; two subscribers may be sent
\* different rows.
C16_OwnTickOnly ==
    \A c \in Subscribers :
       /\ ws[c].pc = "sampling"
          => (/\ Len(ws[c].stamps) = Len(ws[c].rows)
              /\ Len(ws[c].rows) + Len(ws[c].todo) = Len(ws[c].list0)
              /\ \A i \in 1..Len(ws[c].stamps) : ws[c].stamps[i] = ws[c].tick)
       /\ ws[c].pc = "sleep"
          => (/\ Len(ws[c].msg.stamps) = Len(ws[c].msg.rows)
              /\ Len(ws[c].msg.rows) \in {0, Len(ws[c].list0)}
              /\ \A i \in 1..Len(ws[c].msg.stamps) : ws[c].msg.stamps[i] = ws[c].tick)

\* two subscribers hold the messages of their ticks, one of a later tick than
\* the other, and the rows differ: one found the process, the other did not
C16_Witness ==
    /\ ws[1].pc = "sleep"
    /\ ws[2].pc = "sleep"
    /\ ws[1].tick = 1
    /\ ws[2].tick = 0
    /\ ws[1].msg.rows # <<>>
    /\ ws[2].msg.rows # <<>>
    /\ ws[1].msg.rows[1].pids # <<>>
    /\ ws[2].msg.rows[1].pids = <<>>

\* C17 as stated: a tick that begins when the last toggle that returned is a
\* stop neither samples nor sends a message.
C17_NoTickAfterStop ==
    \A c \in Subscribers :
       ws[c].toggle = "stop" => ws[c].pc \notin {"sampling", "sleep"}

\* C17 amended: a tick that begins when the last toggle that returned is a
\* stop samples nothing; it still sends one message, whose rows are empty and
\* whose running field is false.  A tick in flight when stop returns runs to
\* its end.
C17_NoSamplingAfterStop ==
    \A c \in Subscribers :
       ws[c].toggle = "stop"
       => (/\ ws[c].pc # "sampling"
           /\ ws[c].pc = "sleep" => (ws[c].msg.rows = <<>> /\ ~ws[c].msg.running))

\* a tick that began after a stop sent a message without rows although the
\* watch list named a live process
C17_Witness ==
    /\ ws[1].pc = "sleep"
    /\ ws[1].toggle = "stop"
    /\ lastToggle = "stop"
    /\ ws[1].msg.rows = <<>>
    /\ ws[1].msg.processes # <<>>
    /\ WatchedProcessLives(ws[1].msg.processes)

\* C18: a process that raises while a name is sampled never ends the push
\* loop: the tick still sends one row for every name of its list, the other
\* names' rows included, and the loop goes on.
C18_LoopSurvivesFailure ==
    \A c \in Subscribers :
       /\ ws[c].pc # "failed"
       /\ (ws[c].pc = "sleep" /\ ws[c].errs) => RowNames(ws[c].msg.rows) = ws[c].list0

\* a tick in which the only process of the first name raised sent both rows,
\* the second with its pid
C18_Witness ==
    /\ ws[1].pc = "sleep"
    /\ ws[1].errs
    /\ Len(ws[1].msg.rows) = 2
    /\ ws[1].msg.rows[1].pids = <<>>
    /\ ws[1].msg.rows[2].pids # <<>>

\* the row a finished sample returned
SampledRow == smp.res.row

\* how many of the row's processes report the status s
Reporting(row, s) ==
    Cardinality({i \in 1..Len(row.pids) : os.procs[row.pids[i]].status = s})

\* C19: a sampled row has status not_found exactly when its pids are empty,
\* and then cpu_percent, cpu_percent_sum and memory_mb are 0 and pid is null;
\* otherwise the status is running if one of the row's processes reports
\* running, and else a status that no other is reported more often than.
C19_StatusOfRow ==
    (smp.pc = "done" /\ ~smp.res.raised)
    => LET row == SampledRow IN
       /\ (row.status = "not_found") <=> (row.pids = <<>>)
       /\ (row.pids = <<>>)
             => (/\ row.cpu_percent = 0
                 /\ row.cpu_percent_sum = 0
                 /\ row.memory_mb = 0
                 /\ row.pid = 0)
       /\ (row.pids # <<>>)
             => IF Reporting(row, "running") > 0 THEN row.status = "running"
                ELSE /\ Reporting(row, row.status) > 0
                     /\ \A i \in 1..Len(row.pids) :
                           Reporting(row, os.procs[row.pids[i]].status)
                              <= Reporting(row, row.status)

\* three processes were counted, the first stopped and the other two
\* sleeping, and the row says sleeping
C19_Witness ==
    /\ smp.pc = "done"
    /\ ~smp.res.raised
    /\ Len(SampledRow.pids) = 3
    /\ os.procs[SampledRow.pids[1]].status = "stopped"
    /\ Reporting(SampledRow, "sleeping") = 2
    /\ SampledRow.status = "sleeping"

\* the CPU percentages of the row's processes, summed
CpuOfListed(row) ==
    SumOver(row.pids, [p \in 1..Len(os.procs) |-> os.procs[p].cpu])

\* C20 as stated: cpu_percent_sum is the sum of the CPU percentages of the
\* processes the row lists, cpu_percent is min(100, that sum / logical cores)
\* to three decimals, and 0 <= cpu_percent <= 100.
C20_CpuOfSurvivors ==
    (smp.pc = "done" /\ ~smp.res.raised)
    => LET row == SampledRow
           cores == IF os.cores < 1 THEN 1 ELSE os.cores
       IN /\ row.cpu_percent_sum = CpuOfListed(row)
          /\ row.cpu_percent = Min(100000, Round3Div(row.cpu_percent_sum, cores))
          /\ 0 <= row.cpu_percent
          /\ row.cpu_percent <= 100000

(***************************************************************************)
(* normalize_names alone: one call on a list of items, on a value that is  *)
(* not a list, or on the names split from a typed line, and a second call  *)
(* on the list the first one returned.                                     *)
(***************************************************************************)
\* Longest list handed to normalize_names.
MaxNames == 3

NormItems ==
    { StrItem(<<"A", "b">>), StrItem(<<" ", "a", "b", " ">>), StrItem(<<"A", "B">>),
      StrItem(<<"c">>), StrItem(<<" ">>), DictItem(<<"C">>), DictItem(<<>>) }

RECURSIVE NormListsOf(_)
NormListsOf(n) ==
    IF n = 0 THEN {<<>>}
    ELSE LET S == NormListsOf(n - 1) IN
         S \cup {Append(l, i) : l \in {m \in S : Len(m) = n - 1}, i \in NormItems}

NormValues ==
    {JList(l) : l \in NormListsOf(MaxNames)}
    \cup {JNull, JNum(5), JStr(<<"A", "b">>)}

NormTexts ==
    NameTexts \cup {<<"A", "b", ",", " ", "a", "b", ";", "\n", "A", "B">>}

InitNorm ==
    /\ running = FALSE
    /\ interval = DefaultInterval
    /\ process_names = <<>>
    /\ req = NoReq
    /\ resp = NoResp
    /\ pre = InitGlobals
    /\ lastToggle = "none"
    /\ os = NoOs
    /\ ws = [c \in Subscribers |-> ClosedLoop]
    /\ rs = NoResults
    /\ smp = NoSample
    /\ hs = NoHandlers
    /\ \/ \E v \in NormValues : nrm = Norm("call", v, <<>>, <<>>)
       \/ \E t \in NormTexts : nrm = Norm("text", JStr(t), <<>>, <<>>)

\* ui_add's route for a typed line: _split_names(str(raw)) is the argument
NormSplit ==
    /\ nrm.pc = "text"
    /\ nrm' = [nrm EXCEPT !.pc = "call", !.raw = AsJList(_split_names(nrm.raw.s))]
    /\ UNCHANGED <<state, exchange, sampling, hs>>

NormCall ==
    /\ nrm.pc = "call"
    /\ nrm' = [nrm EXCEPT !.pc = "returned", !.out = normalize_names(nrm.raw)]
    /\ UNCHANGED <<state, exchange, sampling, hs>>

NormAgain ==
    /\ nrm.pc = "returned"
    /\ nrm' = [nrm EXCEPT !.pc = "again", !.again = normalize_names(AsJList(nrm.out))]
    /\ UNCHANGED <<state, exchange, sampling, hs>>

NextNorm ==
    \/ NormSplit
    \/ NormCall
    \/ NormAgain

SpecNorm == InitNorm /\ [][NextNorm]_vars

\* the trimmed name of the i-th item
TrimmedAt(items, i) == Strip(items[i].s)

\* the positions whose trimmed name is not empty and differs, ignoring case,
\* from the trimmed name at every earlier position
FirstSeen(items) ==
    { i \in 1..Len(items) :
        /\ TrimmedAt(items, i) # <<>>
        /\ \A j \in 1..(i - 1) : Lower(TrimmedAt(items, j)) # Lower(TrimmedAt(items, i)) }

\* names holds the trimmed names at the first-seen positions, in position order
IsFirstSeenList(names, items) ==
    /\ Len(names) = Cardinality(FirstSeen(items))
    /\ \A i \in FirstSeen(items) :
         names[Cardinality({j \in FirstSeen(items) : j < i}) + 1] = TrimmedAt(items, i)

\* C21: normalize_names returns, for a list, the trimmed non-empty names with
\* only the first occurrence of each case-insensitive class, in first-seen
\* casing and position; for a value that is not a list it returns the empty
\* list; and normalizing its result again returns the same list.
C21_NormalizeFirstSeen ==
    /\ nrm.pc \in {"returned", "again"} =>
         IF nrm.raw.t = "list" THEN IsFirstSeenList(nrm.out, nrm.raw.l)
         ELSE nrm.out = <<>>
    /\ nrm.pc = "again" => nrm.again = nrm.out

C21_Witness ==
    /\ nrm.pc = "again"
    /\ nrm.raw = JList(<<StrItem(<<"A", "b">>), StrItem(<<" ", "a", "b", " ">>),
                         StrItem(<<"A", "B">>)>>)
    /\ nrm.out = <<(<<"A", "b">>)>>

\* the body start works on: an unparsable body counts as the empty object
StartBody == IF req.payload.kind = "obj" THEN req.payload ELSE EmptyObj

\* a names argument that normalizes to a non-empty list: a list with an item
\* whose trimmed name is not empty
NamesSupplied(p) ==
    /\ p.processes.t = "list"
    /\ \E i \in 1..Len(p.processes.l) : TrimmedAt(p.processes.l, i) # <<>>

\* the interval argument: the interval key, else the update_interval key
IntervalSupplied(p) ==
    IF p.interval # JAbsent THEN p.interval ELSE p.update_interval

\* the number a value denotes, in tenths (-1 for a string that denotes none)
NumberOf(j) ==
    CASE j.t = "num" -> j.n
      [] j.t = "str" -> StringValue(j.s)
      [] OTHER -> 0 - 1

\* a value float() refuses: null, a list, a string that is no number
NotCoercible(j) ==
    \/ j.t \in {"null", "list"}
    \/ j.t = "str" /\ ~ParseFloat(j.s).ok

\* C23: start replaces the watch list by the normalized names argument if and
\* only if one is supplied and normalizes to a non-empty list, and leaves the
\* list alone otherwise; a supplied interval that is a number is stored
\* clamped to at least 1.0, one that is not coercible, or none, leaves the
\* stored interval as it was.
C23_StartListAndInterval ==
    (Done("start") /\ resp.code = 200) =>
        LET p == StartBody
            v == IntervalSupplied(p)
        IN /\ IF NamesSupplied(p)
              THEN IsFirstSeenList(process_names, p.processes.l)
              ELSE process_names = pre.process_names
           /\ (v.t = "num" \/ (v.t = "str" /\ StringValue(v.s) >= 0))
                 => interval = Num(IF NumberOf(v) < 10 THEN 10 ELSE NumberOf(v))
           /\ (v = JAbsent \/ NotCoercible(v)) => interval = pre.interval

\* start with a one-name list and interval 0.5 replaced another list and
\* stored 1.0 over 3.0
C23_Witness ==
    /\ Done("start")
    /\ req.payload.processes = JList(<<StrItem(<<"b">>)>>)
    /\ req.payload.interval = JNum(5)
    /\ pre.process_names = <<(<<"a">>)>>
    /\ pre.interval = Num(30)
    /\ process_names = <<(<<"b">>)>>
    /\ interval = MinInterval

\* C24: stop leaves the watch list and the interval as they were, and a start
\* without arguments leaves them too, so stop followed by start() monitors the
\* same names at the same interval; set_interval never changes the watch list;
\* configure, add and remove never change the interval.
C24_OnlyOwnField ==
    /\ Done("stop") =>
          (~running /\ process_names = pre.process_names /\ interval = pre.interval)
    /\ (Done("start") /\ StartBody = EmptyObj /\ resp.code = 200) =>
          (running /\ process_names = pre.process_names /\ interval = pre.interval)
    /\ Done("interval") => process_names = pre.process_names
    /\ (\E op \in {"configure", "add", "remove"} : Done(op)) => interval = pre.interval

\* stop returned while the monitor was running with a non-empty watch list
\* and an interval other than the default, and kept both
C24_Witness ==
    /\ Done("stop")
    /\ pre.running
    /\ ~running
    /\ pre.process_names # <<>>
    /\ pre.interval # DefaultInterval
    /\ process_names = pre.process_names
    /\ interval = pre.interval

\* the processes that match the sampled name and that no psutil call found
\* gone or inaccessible, in the order of enumeration (a process that raised
\* NoSuchProcess has left the table)
RECURSIVE SurvivorsFrom(_)
SurvivorsFrom(p) ==
    IF p > Len(os.procs) THEN <<>>
    ELSE (IF /\ os.procs[p].alive
             /\ Lower(os.procs[p].name) = Lower(Strip(smp.name))
             /\ smp.fate[p] = Ok
          THEN <<p>> ELSE <<>>) \o SurvivorsFrom(p + 1)

\* C25: a sample never fails when processes vanish or become inaccessible;
\* the pids of its row are exactly the processes that matched the name,
\* ignoring case, at enumeration and were accessible at the priming step and
\* at the re-read, in enumeration order, and the row is the not_found row
\* when there are none.
C25_PidsAreSurvivors ==
    smp.pc = "done" =>
       /\ ~smp.res.raised
       /\ SampledRow.pids = SurvivorsFrom(1)
       /\ (SurvivorsFrom(1) = <<>>) => SampledRow = NotFoundRow(smp.name)

\* three processes matched: one refused the priming call, one exited before
\* the re-read; the row lists the third only
C25_Witness ==
    /\ smp.pc = "done"
    /\ \E p \in 1..Len(smp.fate) : smp.fate[p].at = "prime"
    /\ \E p \in 1..Len(smp.fate) : smp.fate[p] = Fails("cpu", "NoSuchProcess")
    /\ Len(SampledRow.pids) = 1
    /\ SampledRow.status # "not_found"

\* C26 as stated: in every message a /ws loop has sent, non-empty rows carry,
\* in order, the names of the message's own processes field, also when a
\* configure, add or remove returned while the tick was sampling.
C26_RowsNameProcesses ==
    \A c \in Subscribers :
       (ws[c].pc = "sleep" /\ ws[c].msg.rows # <<>>)
          => RowNames(ws[c].msg.rows) = ws[c].msg.processes

\* C27 as stated: a 200 response of /ui/results with at least one row, and a
\* /ws message with at least one row, say running true in the same payload,
\* also when stop returned while the rows were sampled.
C27_RowsSayRunning ==
    /\ (rs.pc = "done" /\ rs.reply.code = 200 /\ rs.reply.results # <<>>)
          => rs.reply.running
    /\ \A c \in Subscribers :
          (ws[c].pc = "sleep" /\ ws[c].msg.rows # <<>>) => ws[c].msg.running

(***************************************************************************)
(* Two /ui/add or /ui/remove requests side by side.  A handler suspends    *)
(* once, at "await request.json()"; the rest of its body, from the read of *)
(* utils.process_names to the assignment in configure_processes, runs      *)
(* without a suspension (configure_processes awaits nothing).              *)
(***************************************************************************)
RaceLists ==
    { <<>>, <<(<<"a">>)>>, <<(<<"b">>), (<<"c">>)>>, <<(<<"a">>), (<<"B">>), (<<"c">>)>> }

RaceRequests ==
    {Request("add", [EmptyObj EXCEPT !.names = JStr(t)]) :
        t \in {<<"a">>, <<" ", "B">>, <<"c">>, <<"d">>}}
    \cup {Request("remove", [EmptyObj EXCEPT !.name = JStr(t)]) :
            t \in {<<"a">>, <<"b">>, <<" ", "C">>}}

InitRace ==
    /\ running \in BOOLEAN
    /\ interval = DefaultInterval
    /\ process_names \in RaceLists
    /\ req = NoReq
    /\ resp = NoResp
    /\ pre = InitGlobals
    /\ lastToggle = IF running THEN "start" ELSE "none"
    /\ os = NoOs
    /\ ws = [c \in Subscribers |-> ClosedLoop]
    /\ rs = NoResults
    /\ smp = NoSample
    /\ nrm = NoNorm
    /\ hs = NoHandlers

\* the request reaches its handler, which waits for the body
HsArrive(h) ==
    /\ hs[h].pc = "idle"
    /\ \E r \in RaceRequests :
          hs' = [hs EXCEPT ![h] = Handler("body", r.op, r.payload, Globals, 0)]
    /\ UNCHANGED <<state, exchange, sampling, nrm>>

\* the monitor state the body reads is the one current when this handler
\* was given the request, not the one current when the body runs
body_reads_entry(entry, now) == entry

\* the monitor state the body reads: utils.process_names is read after the
\* await of the request body, in the step that also writes it
body_reads(entry, now) == now

\* the body of the handler, from the parsed payload to the response
HsRun(h) ==
    /\ hs[h].pc = "body"
    /\ LET res == served(Request(hs[h].op, hs[h].payload),
                         body_reads(hs[h].entry, Globals)) IN
       /\ process_names' = res.g.process_names
       /\ hs' = [hs EXCEPT ![h].pc = "done", ![h].code = res.resp.code]
    /\ UNCHANGED <<running, interval, lastToggle, exchange, sampling, nrm>>

\* both clients have their responses
HsAnswered ==
    /\ \A h \in Handlers : hs[h].pc = "done"
    /\ hs' = NoHandlers
    /\ UNCHANGED <<state, exchange, sampling, nrm>>

NextRace ==
    \/ HsArrive(1)
    \/ HsArrive(2)
    \/ HsRun(1)
    \/ HsRun(2)
    \/ HsAnswered

SpecRace == InitRace /\ [][NextRace]_vars

\* the name a request adds or removes
NameOf(h) ==
    Strip(IF hs[h].op = "add" THEN hs[h].payload.names.s ELSE hs[h].payload.name.s)

\* C22: when two add or remove requests for different names have both run,
\* whatever the interleaving of their handlers, the watch list shows both:
\* an added name is listed, a removed name is not, and every name either
\* handler found listed is still listed unless one of the two removed it.
C22_BothUpdatesKept ==
    ((\A h \in Handlers : hs[h].pc = "done") /\ Lower(NameOf(1)) # Lower(NameOf(2)))
    => /\ \A h \in Handlers :
             /\ hs[h].code = 200
             /\ hs[h].op = "add" => InList(NameOf(h), process_names)
             /\ hs[h].op = "remove" => ~InList(NameOf(h), process_names)
       /\ \A h \in Handlers :
             \A i \in 1..Len(hs[h].entry.process_names) :
                LET n == hs[h].entry.process_names[i] IN
                (\A k \in Handlers :
                    ~(hs[k].op = "remove" /\ Lower(NameOf(k)) = Lower(n)))
                => InList(n, process_names)

\* add("d") and add("a") were both waiting for their bodies with the watch
\* list empty, and both names are listed after both ran
C22_Witness ==
    /\ \A h \in Handlers : hs[h].pc = "done" /\ hs[h].op = "add"
    /\ \A h \in Handlers : hs[h].entry.process_names = <<>>
    /\ NameOf(1) = <<"d">>
    /\ NameOf(2) = <<"a">>
    /\ Len(process_names) = 2

====
